---- MODULE Spec2Model ----
(***************************************************************************)
(* Byte-pair-encoding trainer (bpe.py): the training state (token list,    *)
(* pair Counter, token map), from_text, step, to_text and the training     *)
(* loop of main.                                                           *)
(*                                                                         *)
(* Python objects live in a heap: a State holds three references, and      *)
(* list.append, Counter item assignment and dict item assignment write to  *)
(* the object a reference designates.  A Counter is the sequence of its    *)
(* (pair, count) entries in insertion order, which is the order            *)
(* most_common breaks ties in.                                             *)
(***************************************************************************)
EXTENDS Integers, Sequences, FiniteSets, TLC

VARIABLES text, heap, state, prev, pc, i

vars == <<text, heap, state, prev, pc, i>>

(* ---------------------------- bounds ----------------------------------- *)

\* longest input text
MaxLen == 5

\* most calls of step in one run: one more than any terminating run needs
MaxSteps == MaxLen + 1

\* iterations of the while loop of _expand_token after which the expansion
\* is known to run forever.  A token stands for at most MaxLen characters
\* of the text; a character is a leaf, or (U+0100 only, whose code point is
\* also the first synthesized id) a pair of two leaves; so an expansion
\* that ends visits at most 2 * MaxLen leaves and 4 * MaxLen - 1 ids
ExpandFuel == 4 * MaxLen

(* ------------------------- characters ---------------------------------- *)

\* the characters input texts are made of: U+0000, "a", "b" and U+0100
Alphabet == {"NUL", "a", "b", "U0100"}

BaseSize == 256

None == -1

ord(c) ==
    CASE c = "NUL" -> 0
      [] c = "a" -> 97
      [] c = "b" -> 98
      [] c = "U0100" -> 256

chr(n) ==
    IF \E c \in Alphabet : ord(c) = n
    THEN CHOOSE c \in Alphabet : ord(c) = n
    ELSE "other"

Texts == UNION {[1..n -> Alphabet] : n \in 0..MaxLen}

(* ------------------------------ Pair ----------------------------------- *)

Pair(l, r) == [left |-> l, right |-> r]

Leaf(t) == [leaf |-> t]

IsPair(mapping) == "left" \in DOMAIN mapping

(* ----------------------------- Counter --------------------------------- *)

RECURSIVE CounterIndex(_, _, _)
\* position of the entry of pair p at or after position k, 0 when absent
CounterIndex(frequencies, p, k) ==
    IF k > Len(frequencies) THEN 0
    ELSE IF frequencies[k].pair = p THEN k
    ELSE CounterIndex(frequencies, p, k + 1)

\* frequencies[p]: a missing key reads as 0 and is not inserted by the read
CounterGet(frequencies, p) ==
    LET k == CounterIndex(frequencies, p, 1)
    IN  IF k = 0 THEN 0 ELSE frequencies[k].count

\* frequencies[p] += d: an existing entry keeps its position, a new one
\* goes last
CounterAdd(frequencies, p, d) ==
    LET k == CounterIndex(frequencies, p, 1)
    IN  IF k = 0
        THEN Append(frequencies, [pair |-> p, count |-> d])
        ELSE [frequencies EXCEPT ![k].count = @ + d]

CounterKeys(frequencies) == {frequencies[k].pair : k \in 1..Len(frequencies)}

\* Counter.__eq__: a missing element counts as zero
CounterEq(f, g) ==
    \A p \in CounterKeys(f) \cup CounterKeys(g) :
        CounterGet(f, p) = CounterGet(g, p)

RECURSIVE CounterOfPairwise(_, _, _)
\* Counter(pairwise(tokens)), counting from position k on
CounterOfPairwise(tokens, k, acc) ==
    IF k + 1 > Len(tokens) THEN acc
    ELSE CounterOfPairwise(tokens, k + 1,
                           CounterAdd(acc, Pair(tokens[k], tokens[k + 1]), 1))

RECURSIVE MaxIndex_Last(_, _, _)
\* the scan keeping the later entry on equal counts
MaxIndex_Last(frequencies, k, best) ==
    IF k > Len(frequencies) THEN best
    ELSE IF frequencies[k].count >= frequencies[best].count
         THEN MaxIndex_Last(frequencies, k + 1, k)
         ELSE MaxIndex_Last(frequencies, k + 1, best)

RECURSIVE MaxIndex(_, _, _)
\* position of the first entry with the largest count, scanning from k
MaxIndex(frequencies, k, best) ==
    IF k > Len(frequencies) THEN best
    ELSE IF frequencies[k].count > frequencies[best].count
         THEN MaxIndex(frequencies, k + 1, k)
         ELSE MaxIndex(frequencies, k + 1, best)

\* frequencies.most_common(1)[0]: indexing the empty list raises IndexError
most_used(frequencies) ==
    IF Len(frequencies) = 0
    THEN [raised |-> TRUE, pair |-> Pair(None, None), count |-> 0]
    ELSE LET k == MaxIndex(frequencies, 2, 1)
         IN  [raised |-> FALSE, pair |-> frequencies[k].pair,
              count |-> frequencies[k].count]

(* --------------------------- token map --------------------------------- *)

\* the ids whose mapping equals pair
IdsOf(map, pair) == {t \in DOMAIN map : map[t] = pair}

\* first id, in iteration order, whose mapping equals pair; None if none.
\* Keys are inserted as 0 .. 255 and then as len(map), so iteration order
\* is increasing id
FindPair(map, pair) ==
    IF IdsOf(map, pair) = {} THEN None
    ELSE CHOOSE t \in IdsOf(map, pair) : \A u \in IdsOf(map, pair) : t <= u

\* len(map) + 1 taken for the next id, which skips an id
DictLen_Skip(map) == Cardinality(DOMAIN map) + 1

\* number of entries of a dict whose keys are 0 .. n-1
DictLen(map) == Cardinality(DOMAIN map)

\* create_or_get_pair without its search: every call registers a new id
create_or_get_pair_Always(map, pair) ==
    [token |-> DictLen(map),
     map |-> [t \in DOMAIN map \cup {DictLen(map)} |->
                 IF t = DictLen(map) THEN pair ELSE map[t]]]

\* returns the id and the map as the call leaves it
create_or_get_pair(map, pair) ==
    LET found == FindPair(map, pair)
        next_id == DictLen(map)
    IN  IF found # None
        THEN [token |-> found, map |-> map]
        ELSE [token |-> next_id,
              map |-> [t \in DOMAIN map \cup {next_id} |->
                          IF t = next_id THEN pair ELSE map[t]]]

(* ------------------------------ heap ----------------------------------- *)

\* a new object holding value: the heap as extended and its reference
Alloc(h, value) == [heap |-> Append(h, value), ref |-> Len(h) + 1]

Tokens(h, s) == h[s.tokens]
Frequencies(h, s) == h[s.frequencies]
TokenMap(h, s) == h[s.token_map]

\* State.__eq__ : field by field, by value
StateEq(h1, s1, h2, s2) ==
    /\ Tokens(h1, s1) = Tokens(h2, s2)
    /\ CounterEq(Frequencies(h1, s1), Frequencies(h2, s2))
    /\ TokenMap(h1, s1) = TokenMap(h2, s2)

(* ---------------------------- from_text -------------------------------- *)

from_text(t) ==
    LET token_map == [k \in 0..(BaseSize - 1) |-> Leaf(k)]
        tokens == [k \in 1..Len(t) |-> ord(t[k])]
        frequencies == CounterOfPairwise(tokens, 1, <<>>)
    IN  [heap |-> <<tokens, frequencies, token_map>>,
         state |-> [tokens |-> 1, frequencies |-> 2, token_map |-> 3]]

(* ----------------------------- to_text --------------------------------- *)

RECURSIVE ExpandLoop(_, _, _, _)
\* the while loop of _expand_token; to_process is the stack, top last
ExpandLoop(map, to_process, characters, fuel) ==
    IF Len(to_process) = 0
    THEN [ok |-> TRUE, err |-> "", characters |-> characters]
    ELSE IF fuel = 0
    THEN [ok |-> FALSE, err |-> "diverges", characters |-> characters]
    ELSE
      LET token_id == to_process[Len(to_process)]
          rest == SubSeq(to_process, 1, Len(to_process) - 1)
      IN  IF token_id \notin DOMAIN map
          THEN [ok |-> FALSE, err |-> "KeyError", characters |-> characters]
          ELSE LET mapping == map[token_id]
               IN  IF IsPair(mapping)
                   THEN ExpandLoop(map,
                                   rest \o <<mapping.right, mapping.left>>,
                                   characters, fuel - 1)
                   ELSE ExpandLoop(map, rest,
                                   Append(characters, chr(mapping.leaf)),
                                   fuel - 1)

_expand_token(map, token) == ExpandLoop(map, <<token>>, <<>>, ExpandFuel)

RECURSIVE ToTextLoop(_, _, _, _)
ToTextLoop(map, tokens, k, characters) ==
    IF k > Len(tokens)
    THEN [ok |-> TRUE, err |-> "", characters |-> characters]
    ELSE LET e == _expand_token(map, tokens[k])
         IN  IF ~e.ok THEN e
             ELSE ToTextLoop(map, tokens, k + 1, characters \o e.characters)

to_text(h, s) == ToTextLoop(TokenMap(h, s), Tokens(h, s), 1, <<>>)

(* ------------------------------- step ---------------------------------- *)

Truthy(token) == token # None /\ token # 0

\* the Counter as account_for_substitution leaves it
account_for_substitution(frequencies, left_token, the_pair, right_token, new_token) ==
    LET f1 == IF Truthy(left_token)
              THEN CounterAdd(
                     CounterAdd(frequencies,
                                Pair(left_token, the_pair.left), -1),
                     Pair(left_token, new_token), 1)
              ELSE frequencies
        f2 == IF Truthy(right_token)
              THEN CounterAdd(
                     CounterAdd(f1, Pair(the_pair.right, right_token), -1),
                     Pair(new_token, right_token), 1)
              ELSE f1
    IN  CounterAdd(f2, the_pair, -1)

\* new_tokens = list(state.tokens) in place of the empty list
NewTokens_Copy(h, s) == Alloc(h, Tokens(h, s))

\* new_tokens = []
NewTokens(h, s) == Alloc(h, <<>>)

\* new_frequencies = state.frequencies, the same object, in place of a copy
CopyFrequencies_Alias(h, s) == [heap |-> h, ref |-> s.frequencies]

\* new_frequencies = Counter(state.frequencies)
CopyFrequencies(h, s) == Alloc(h, Frequencies(h, s))

\* new_token_map = dict(state.token_map)
CopyTokenMap(h, s) == Alloc(h, TokenMap(h, s))

\* the loop leaving at the last token without appending it
LastToken_Dropped(h, s, old_idx, nt) == h

\* if old_idx + 1 >= len(state.tokens): append the last token and break
LastToken(h, s, old_idx, nt) ==
    [h EXCEPT ![nt] = Append(@, Tokens(h, s)[old_idx + 1])]

RECURSIVE StepLoop(_, _, _, _, _, _, _)
\* the while loop of step; nt, nf, nm are the references new_tokens,
\* new_frequencies and new_token_map; the result is the heap at loop exit
StepLoop(h, s, pair_to_replace, old_idx, nt, nf, nm) ==
    LET len == Len(Tokens(h, s))
        tok(k) == Tokens(h, s)[k + 1]
    IN  IF ~(old_idx < len) THEN h
        ELSE IF old_idx + 1 >= len
        THEN LastToken(h, s, old_idx, nt)
        ELSE
          LET pair == Pair(tok(old_idx), tok(old_idx + 1))
          IN  IF pair # pair_to_replace
              THEN StepLoop([h EXCEPT ![nt] = Append(@, tok(old_idx))],
                            s, pair_to_replace, old_idx + 1, nt, nf, nm)
              ELSE
                LET c == create_or_get_pair(h[nm], pair)
                    h1 == [h EXCEPT ![nm] = c.map]
                    new_token == c.token
                    left_token == IF Len(h1[nt]) > 0
                                  THEN h1[nt][Len(h1[nt])] ELSE None
                    right_token == IF old_idx + 2 < Len(Tokens(h1, s))
                                   THEN Tokens(h1, s)[old_idx + 3] ELSE None
                    h2 == [h1 EXCEPT ![nf] =
                              account_for_substitution(@, left_token, pair,
                                                       right_token, new_token)]
                    h3 == [h2 EXCEPT ![nt] = Append(@, new_token)]
                IN  StepLoop(h3, s, pair_to_replace, old_idx + 2, nt, nf, nm)

\* the early return taken on count == 0 in place of count == 1
ReturnsInput_Zero(count) == count = 0

\* if count == 1: return state
ReturnsInput(count) == count = 1

\* step(state): the heap after the call and the State returned
step(h, s) ==
    LET mu == most_used(Frequencies(h, s))
    IN  IF mu.raised
        THEN [raised |-> TRUE, heap |-> h, state |-> s]
        ELSE IF ReturnsInput(mu.count)
        THEN [raised |-> FALSE, heap |-> h, state |-> s]
        ELSE
          LET a1 == NewTokens(h, s)
              a2 == CopyFrequencies(a1.heap, s)
              a3 == CopyTokenMap(a2.heap, s)
              h4 == StepLoop(a3.heap, s, mu.pair, 0, a1.ref, a2.ref, a3.ref)
          IN  [raised |-> FALSE, heap |-> h4,
               state |-> [tokens |-> a1.ref, frequencies |-> a2.ref,
                          token_map |-> a3.ref]]

(* ---------------------------- the program ------------------------------ *)

tokens == Tokens(heap, state)
frequencies == Frequencies(heap, state)
token_map == TokenMap(heap, state)

Init ==
    /\ text \in Texts
    /\ heap = from_text(text).heap
    /\ state = from_text(text).state
    /\ prev = state
    /\ pc = "run"
    /\ i = 0

\* next_state = step(state); state = next_state
Step ==
    /\ pc = "run"
    /\ i < MaxSteps
    /\ ~step(heap, state).raised
    /\ heap' = step(heap, state).heap
    /\ state' = step(heap, state).state
    /\ prev' = state
    /\ i' = i + 1
    /\ UNCHANGED <<text, pc>>

\* step(state) raises IndexError out of most_used
StepRaise ==
    /\ pc = "run"
    /\ step(heap, state).raised
    /\ pc' = "raised"
    /\ UNCHANGED <<text, heap, state, prev, i>>

Next == Step \/ StepRaise

Spec == Init /\ [][Next]_vars

(* main: while most_used(state.frequencies)[1] > 1: state = step(state) *)

LoopIterate ==
    /\ pc = "run"
    /\ i < MaxSteps
    /\ ~most_used(frequencies).raised
    /\ most_used(frequencies).count > 1
    /\ ~step(heap, state).raised
    /\ heap' = step(heap, state).heap
    /\ state' = step(heap, state).state
    /\ prev' = state
    /\ i' = i + 1
    /\ UNCHANGED <<text, pc>>

LoopExit ==
    /\ pc = "run"
    /\ ~most_used(frequencies).raised
    /\ ~(most_used(frequencies).count > 1)
    /\ pc' = "done"
    /\ UNCHANGED <<text, heap, state, prev, i>>

LoopRaise ==
    /\ pc = "run"
    /\ most_used(frequencies).raised
    /\ pc' = "raised"
    /\ UNCHANGED <<text, heap, state, prev, i>>

NextLoop == LoopIterate \/ LoopExit \/ LoopRaise

SpecLoop == Init /\ [][NextLoop]_vars /\ WF_vars(NextLoop)

(* ======================= properties of the code ======================== *)

\* the number of positions k at which (toks[k], toks[k+1]) = p
Occurrences(toks, p) ==
    Cardinality({k \in 1..(Len(toks) - 1) : Pair(toks[k], toks[k + 1]) = p})

AdjacentPairs(toks) ==
    {Pair(toks[k], toks[k + 1]) : k \in 1..(Len(toks) - 1)}

\* a step on table f goes on to its rewrite loop: the largest count is not 1
Rewrites(f) == most_used(f).count # 1

\* C1: after any number of steps from from_text(T), the frequency table
\* gives for every pair exactly the number of positions at which the pair
\* occurs in the token sequence, an absent entry counting as 0.
C1_FrequencyCountEquivalence ==
    \A p \in CounterKeys(frequencies) \cup AdjacentPairs(tokens) :
        CounterGet(frequencies, p) = Occurrences(tokens, p)

\* C2: after any number of steps from from_text(T), to_text returns T.
C2_LosslessRoundTrip ==
    /\ to_text(heap, state).ok
    /\ to_text(heap, state).characters = text

\* C3: the training loop started from from_text(T) exits after at most
\* len(T) applications of step, so it never makes more than len(T) calls.
C3_Termination == i <= Len(text)

\* C4: on a state whose frequency table is non-empty and whose most frequent
\* pair has count <= 1, step returns a state equal by value to its input.
C4_NoOpStep ==
    [][(Step /\ most_used(frequencies).count <= 1)
          => StateEq(heap', state', heap, state)]_vars

\* a step was applied to a non-empty table whose largest count is <= 1,
\* on a text with at least two pairs
C4_Witness ==
    /\ i >= 1
    /\ Len(Frequencies(heap, prev)) >= 2
    /\ most_used(Frequencies(heap, prev)).count <= 1
    /\ StateEq(heap, state, heap, prev)

\* the pair the step applied to prev replaced, and whether it ran its loop
PrevPair == most_used(Frequencies(heap, prev)).pair
PrevRewrote ==
    /\ i >= 1
    /\ Rewrites(Frequencies(heap, prev))

RECURSIVE GreedyRewrite(_, _, _, _)
\* the left-to-right scan of old from position k: a position whose symbol
\* and successor form p emits new_token and skips two symbols, any other
\* position emits its symbol
GreedyRewrite(old, p, new_token, k) ==
    IF k > Len(old) THEN <<>>
    ELSE IF k < Len(old) /\ Pair(old[k], old[k + 1]) = p
    THEN <<new_token>> \o GreedyRewrite(old, p, new_token, k + 2)
    ELSE <<old[k]>> \o GreedyRewrite(old, p, new_token, k + 1)

\* C5: a step that replaces pair P yields the greedy left-to-right,
\* non-overlapping rewrite of its input with the id registered for P; for
\* "aaa" it yields [256, a], frequency 1 for (256, a), 0 for (a, a), and the
\* merge table entry 256 -> (a, a).
C5_GreedyRewrite ==
    /\ [][(Step /\ Rewrites(frequencies))
            => tokens' = GreedyRewrite(tokens, most_used(frequencies).pair,
                            FindPair(token_map', most_used(frequencies).pair),
                            1)]_vars
    /\ []((text = <<"a", "a", "a">> /\ i = 1)
            => /\ tokens = <<256, 97>>
               /\ CounterGet(frequencies, Pair(256, 97)) = 1
               /\ CounterGet(frequencies, Pair(97, 97)) = 0
               /\ DOMAIN token_map = 0..256
               /\ token_map[256] = Pair(97, 97))

\* a step merged a pair that also occurred at a position overlapping a
\* merged one, so fewer merges were made than the pair had occurrences
C5_Witness ==
    /\ PrevRewrote
    /\ Len(tokens) < Len(Tokens(heap, prev))
    /\ Occurrences(Tokens(heap, prev), PrevPair)
          > Len(Tokens(heap, prev)) - Len(tokens)

\* C6: for a text of length 0 or 1 the frequency table is empty and neither
\* step nor the training loop raises.
C6_EmptyInputNoRaise ==
    Len(text) <= 1 => (Len(frequencies) = 0 /\ pc # "raised")

\* the synthesized ids of a token map
Synthesized(map) == {t \in DOMAIN map : t >= BaseSize /\ IsPair(map[t])}

\* C7: no two distinct synthesized ids of the merge table map to the same
\* Pair.
C7_VocabularyMinimality ==
    \A t, u \in Synthesized(token_map) :
        t # u => token_map[t] # token_map[u]

\* two ids have been synthesized and the last step merged its pair at two
\* places or more, the second through the lookup of the id already made
C7_Witness ==
    /\ Cardinality(Synthesized(token_map)) >= 2
    /\ PrevRewrote
    /\ Len(Tokens(heap, prev)) - Len(tokens) >= 2

RECURSIVE MergeCount(_, _, _)
\* the number of merge occurrences the loop of step performs from k on
MergeCount(old, p, k) ==
    IF k >= Len(old) THEN 0
    ELSE IF Pair(old[k], old[k + 1]) = p
    THEN 1 + MergeCount(old, p, k + 2)
    ELSE MergeCount(old, p, k + 1)

\* C8: a step never lengthens the token sequence, and shortens it by exactly
\* the number of merge occurrences it performs.
C8_MonotonicShrinkage ==
    [][Step =>
         /\ Len(tokens') <= Len(tokens)
         /\ Len(tokens') = Len(tokens) -
              (IF Rewrites(frequencies)
               THEN MergeCount(tokens, most_used(frequencies).pair, 1)
               ELSE 0)]_vars

\* a step performed two merges or more and left unmerged symbols
C8_Witness ==
    /\ PrevRewrote
    /\ MergeCount(Tokens(heap, prev), PrevPair, 1) >= 2
    /\ Len(tokens) > MergeCount(Tokens(heap, prev), PrevPair, 1)

\* C9: when the training loop exits, every adjacent pair of the final token
\* sequence occurs at exactly one position.
C9_FinalNoRepeatedPair ==
    pc = "done" =>
        \A p \in AdjacentPairs(tokens) : Occurrences(tokens, p) = 1

\* the loop exited after at least one merging step, on three tokens or more
C9_Witness ==
    /\ pc = "done"
    /\ i >= 1
    /\ Len(tokens) >= 3
    /\ Len(tokens) < Len(text)

\* C10: step leaves the token list, the Counter and the dict of its input
\* as they were, and a successor that is not the input itself holds tables
\* that are new objects.
C10_InputNotMutated ==
    [][Step =>
         /\ heap'[state.tokens] = heap[state.tokens]
         /\ heap'[state.frequencies] = heap[state.frequencies]
         /\ heap'[state.token_map] = heap[state.token_map]
         /\ state' # state =>
              {state'.tokens, state'.frequencies, state'.token_map}
                 \cap DOMAIN heap = {}]_vars

\* a step returned a successor whose tokens, Counter and dict all differ
\* from those of its input
C10_Witness ==
    /\ i >= 1
    /\ state # prev
    /\ Tokens(heap, state) # Tokens(heap, prev)
    /\ Frequencies(heap, state) # Frequencies(heap, prev)
    /\ TokenMap(heap, state) # TokenMap(heap, prev)

\* C11: whenever the loop condition holds (the most frequent pair count is
\* > 1), the step the loop takes performs at least one merge, so the
\* successor's token sequence is strictly shorter than the predecessor's.
C11_LoopProgress ==
    [][LoopIterate => Len(tokens') < Len(tokens)]_vars

RECURSIVE MergeCalls(_, _, _, _, _)
\* the merge occurrences of a step on old, in order, from position k on:
\* for each, the left neighbour (the last symbol emitted so far, last) and
\* the right neighbour (the symbol after the consumed pair), None if absent
MergeCalls(old, p, new_token, k, last) ==
    IF k >= Len(old) THEN <<>>
    ELSE IF Pair(old[k], old[k + 1]) = p
    THEN <<[left |-> last,
            right |-> IF k + 2 <= Len(old) THEN old[k + 2] ELSE None]>>
         \o MergeCalls(old, p, new_token, k + 2, new_token)
    ELSE MergeCalls(old, p, new_token, k + 1, old[k])

\* the change of the count of q that one merge occurrence of p into
\* new_token is to make, with neighbours l and r (None if absent)
MergeDelta(q, p, new_token, l, r) ==
      (IF q = p THEN -1 ELSE 0)
    + (IF l # None /\ q = Pair(l, p.left) THEN -1 ELSE 0)
    + (IF l # None /\ q = Pair(l, new_token) THEN 1 ELSE 0)
    + (IF r # None /\ q = Pair(p.right, r) THEN -1 ELSE 0)
    + (IF r # None /\ q = Pair(new_token, r) THEN 1 ELSE 0)

\* the pairs one merge occurrence is to touch
MergeTouched(p, new_token, l, r) ==
    {p} \cup (IF l # None THEN {Pair(l, p.left), Pair(l, new_token)} ELSE {})
        \cup (IF r # None THEN {Pair(p.right, r), Pair(new_token, r)} ELSE {})

RECURSIVE DeltasHold(_, _, _, _, _, _)
\* starting from table f, each of the calls from the j-th on changes the
\* table by exactly its MergeDelta, and the last leaves the table final
DeltasHold(f, calls, j, p, new_token, final) ==
    IF j > Len(calls) THEN f = final
    ELSE
      LET l == calls[j].left
          r == calls[j].right
          g == account_for_substitution(f, l, p, r, new_token)
      IN  /\ \A q \in CounterKeys(f) \cup CounterKeys(g)
                        \cup MergeTouched(p, new_token, l, r) :
                CounterGet(g, q) = CounterGet(f, q)
                                     + MergeDelta(q, p, new_token, l, r)
          /\ DeltasHold(g, calls, j + 1, p, new_token, final)

\* C12: each merge occurrence of pair P into new_token changes the table by
\* exactly count(P) - 1, count((L, P.left)) - 1 and count((L, new_token)) + 1
\* if a left neighbour L exists, count((P.right, R)) - 1 and
\* count((new_token, R)) + 1 if a right neighbour R exists (id 0 included),
\* and nothing else.
C12_PerMergeDelta ==
    PrevRewrote =>
        DeltasHold(Frequencies(heap, prev),
                   MergeCalls(Tokens(heap, prev), PrevPair,
                              FindPair(token_map, PrevPair), 1, None),
                   1, PrevPair, FindPair(token_map, PrevPair), frequencies)

\* the ids a set of pairs mentions
IdsOfPairs(pairs) == {q.left : q \in pairs} \cup {q.right : q \in pairs}

\* every id a state refers to: in its token sequence, in a Pair of its
\* merge table, in a key of its frequency table
ReferencedIds ==
    {tokens[k] : k \in 1..Len(tokens)}
        \cup IdsOfPairs({token_map[t] : t \in Synthesized(token_map)})
        \cup IdsOfPairs(CounterKeys(frequencies))

\* C13: every id that occurs in the token sequence, in a Pair of the merge
\* table or in a key of the frequency table has an entry in the merge table,
\* and to_text never looks up an absent id.
C13_MergeTableCoverage ==
    /\ ReferencedIds \subseteq DOMAIN token_map
    /\ to_text(heap, state).err # "KeyError"

\* C14: every synthesized id is strictly greater than the left and the right
\* id of its Pair, and _expand_token terminates on it, giving the expansion
\* of the left id followed by that of the right id.
C14_AcyclicMergeTable ==
    \A t \in Synthesized(token_map) :
        /\ t > token_map[t].left
        /\ t > token_map[t].right
        /\ _expand_token(token_map, t).ok
        /\ _expand_token(token_map, t).characters
             = _expand_token(token_map, token_map[t].left).characters
                 \o _expand_token(token_map, token_map[t].right).characters

\* C15: across every step the successor's merge table keeps every entry of
\* the predecessor's as it was and has at most one more; its ids are
\* 0 .. 255 followed by 256, 257, ... with no gap, a new id being registered
\* for the pair the step replaces; a step that returns its input adds none.
C15_MergeTableGrowth ==
    [][Step =>
         LET old == token_map
             new == token_map'
             added == DOMAIN new \ DOMAIN old
         IN  /\ DOMAIN old \subseteq DOMAIN new
             /\ [t \in DOMAIN old |-> new[t]] = old
             /\ Cardinality(added) <= 1
             /\ DOMAIN new = 0..(Cardinality(DOMAIN new) - 1)
             /\ \A t \in added :
                   /\ t = Cardinality(DOMAIN old)
                   /\ new[t] = most_used(frequencies).pair
             /\ ~Rewrites(frequencies) => added = {}]_vars

\* a second id, 257, was registered by a step that merged its pair at two
\* places or more
C15_Witness ==
    /\ PrevRewrote
    /\ DOMAIN token_map = 0..257
    /\ DOMAIN TokenMap(heap, prev) = 0..256
    /\ Len(Tokens(heap, prev)) - Len(tokens) >= 2

\* the positions of table f that hold its largest count
MaxPositions(f) ==
    {k \in 1..Len(f) : \A j \in 1..Len(f) : f[j].count <= f[k].count}

\* C16: most_used returns a pair whose count is the maximum of the table
\* and, among the pairs tied for it, the one inserted first; and the table a
\* step hands on keeps the entries of its input in their order.
C16_DeterministicSelection ==
    /\ [](Len(frequencies) > 0 =>
            LET mu == most_used(frequencies)
            IN  \E k \in MaxPositions(frequencies) :
                   /\ \A j \in MaxPositions(frequencies) : k <= j
                   /\ mu.pair = frequencies[k].pair
                   /\ mu.count = frequencies[k].count)
    /\ [][Step =>
            /\ Len(frequencies') >= Len(frequencies)
            /\ \A k \in 1..Len(frequencies) :
                  frequencies'[k].pair = frequencies[k].pair]_vars

\* a step chose among two pairs or more tied for a largest count above 1,
\* rewrote the tokens, and left a table that again has a tie
C16_Witness ==
    /\ PrevRewrote
    /\ Cardinality(MaxPositions(Frequencies(heap, prev))) >= 2
    /\ Len(tokens) < Len(Tokens(heap, prev))
    /\ Cardinality(MaxPositions(frequencies)) >= 2

\* C17: after any number of completed steps every count stored in the
\* frequency table is >= 0.
C17_NoNegativeCount ==
    \A k \in 1..Len(frequencies) : frequencies[k].count >= 0

====
